---------------------------- MODULE Spec2Model ----------------------------
(***************************************************************************)
(* State-machine model of three Home Assistant components:                 *)
(*   - voip/assist_satellite.py: VoipAssistSatellite, the pipeline cycle   *)
(*     (on_chunk, _run_pipeline, on_pipeline_event, _send_tts, _play_tone) *)
(*   - assist_satellite/websocket_api.py: websocket_intercept_wake_word    *)
(*   - homeassistant_sky_connect/__init__.py: _async_usb_scan_done         *)
(* Each component has its own specification (Spec, SpecWs, SpecUsb); the   *)
(* variables of the other components stay at their initial values.         *)
(***************************************************************************)
EXTENDS Naturals, Integers, Sequences, FiniteSets

VARIABLES
    \* ---- VoipAssistSatellite ------------------------------------------
    _pipeline_task,         \* self._pipeline_task: None or the task's id
    task_pc,                \* position of every _run_pipeline task
    last_end,               \* how the most recent cycle ended
    _audio_queue,           \* self._audio_queue: chunks, oldest first
    chunks_in,              \* on_chunk calls since the cycle's first chunk
    _pipeline_had_error,    \* self._pipeline_had_error
    _tts_done,              \* self._tts_done (asyncio.Event)
    tts_done_by,            \* which cycle's code set _tts_done (None: clear)
    _processing_tone_done,  \* self._processing_tone_done (asyncio.Event)
    _tones,                 \* self._tones
    run_stage,              \* progress of the pipeline run being awaited
    send_tts_pc,            \* position of the _send_tts task of each cycle
    tone_task_pc,           \* position of the processing-tone task
    is_active,              \* voip_device.is_active / transport connected
    satellite_state,        \* the entity's AssistSatelliteState (_set_state)
    clock,                  \* seconds since the running cycle was created
    armed_at,               \* clock value at which asyncio.timeout started
    timer_on,               \* the asyncio.timeout context is active
    \* ---- websocket_intercept_wake_word ---------------------------------
    ws_cmd,                 \* per message id: the command and its progress
    ws_task,                \* per message id: the intercept_wake_word task
    subscriptions,          \* connection.subscriptions
    sent,                   \* per message id: messages sent on the connection
    \* ---- _async_usb_scan_done -------------------------------------------
    plugged_in,             \* usb.async_is_plugged_in(hass, matcher)
    addon_using,            \* multi_pan_addon_using_device(hass, dev_path)
    scan_pc,                \* per config entry: position of the scan task
    flows,                  \* per config entry: discovery flows started
    removals                \* per config entry: async_remove calls scheduled

voipVars == << _pipeline_task, task_pc, last_end, _audio_queue, chunks_in,
               _pipeline_had_error, _tts_done, tts_done_by,
               _processing_tone_done, _tones, run_stage, send_tts_pc,
               tone_task_pc, is_active, satellite_state, clock, armed_at,
               timer_on >>
wsVars   == << ws_cmd, ws_task, subscriptions, sent >>
usbVars  == << plugged_in, addon_using, scan_pc, flows, removals >>
vars     == << voipVars, wsVars, usbVars >>

\* Groups of variables an action leaves alone.
otherVars == << wsVars, usbVars >>
flagVars  == << _pipeline_had_error, _processing_tone_done, _tones >>
ttsVars   == << _tts_done, tts_done_by >>
timeVars  == << clock, armed_at, timer_on >>
subVars   == << send_tts_pc, tone_task_pc >>
queueVars == << _audio_queue, chunks_in >>
taskVars  == << _pipeline_task, task_pc, last_end, run_stage >>

(***************************************************************************)
(* Bounds of the model.                                                    *)
(***************************************************************************)
MaxCycles == 2          \* cycles with a task still running at one time
MaxChunks == 3          \* on_chunk calls during one cycle
MaxPreStreamSec == 1    \* seconds the config update + listening tone take
MaxOverrunSec == 1      \* seconds observed after a 30 s deadline could end
MaxMsgs == 2            \* intercept_wake_word commands on the connection
MaxEntries == 2         \* SkyConnect config entries

(***************************************************************************)
(* Constants of voip/assist_satellite.py.                                  *)
(***************************************************************************)
_PIPELINE_TIMEOUT_SEC == 30

None == 0
Tasks == 1..MaxCycles

LISTENING == "LISTENING"
PROCESSING == "PROCESSING"
ERROR_TONE == "ERROR"
Tones == {LISTENING, PROCESSING, ERROR_TONE}

\* PipelineEventType members the satellite reacts to.
STT_END == "STT_END"
TTS_END == "TTS_END"
ERROR == "ERROR"

\* Positions of a _run_pipeline task.  "none": no such task; "config":
\* awaiting async_set_config; "listening": awaiting _play_tone(LISTENING);
\* "streaming": inside the asyncio.timeout block; "awaiting_tts": at
\* _tts_done.wait(); "error_tone": awaiting _play_tone(ERROR); "killed": the
\* coroutine was left by an exception before its try block.
LivePc == {"config", "listening", "streaming", "awaiting_tts", "error_tone"}
\* Ways a cycle ends through its finally clause: "finished" (line 214),
\* "not_found" (line 216), "timed_out" and "cancelled" (line 219).
EndKinds == {"finished", "not_found", "timed_out", "cancelled"}
Live(t) == task_pc[t] \in LivePc

ToneEnabled(tone) == tone \in _tones

\* AssistSatelliteState: the member this class sets, and any other member.
WAITING_FOR_INPUT == "WAITING_FOR_INPUT"
OTHER_STATE == "OTHER"
SatelliteStates == {WAITING_FOR_INPUT, OTHER_STATE}

\* self._set_state(state), lines 138 and 144.
_set_state(state) == satellite_state' = state

\* AssistSatelliteEntity.on_pipeline_event and tts_response_finished set
\* the entity's state as the base class sees fit, or leave it.
super_on_pipeline_event == satellite_state' \in {satellite_state, OTHER_STATE}
tts_response_finished == satellite_state' \in {satellite_state, OTHER_STATE}

(***************************************************************************)
(* __init__, lines 87-109.                                                 *)
(***************************************************************************)
VoipFields ==
    /\ _pipeline_task = None
    /\ task_pc = [t \in Tasks |-> "none"]
    /\ last_end = "none"
    /\ _audio_queue = << >>
    /\ chunks_in = 0
    /\ _pipeline_had_error = FALSE
    /\ _tts_done = FALSE
    /\ tts_done_by = None
    /\ _processing_tone_done = FALSE
    /\ run_stage = "none"
    /\ send_tts_pc = [t \in Tasks |-> "none"]
    /\ tone_task_pc = [t \in Tasks |-> "none"]
    /\ is_active = FALSE
    /\ clock = 0
    /\ armed_at = 0
    /\ timer_on = FALSE

\* The tones argument of __init__ (line 92) is any combination of flags;
\* the state of a new entity is whatever AssistSatelliteEntity sets.
VoipInit ==
    /\ VoipFields
    /\ _tones \in SUBSET Tones
    /\ satellite_state \in SatelliteStates

\* The satellite as constructed with the default tones, never called.
VoipIdle == VoipFields /\ _tones = Tones /\ satellite_state = OTHER_STATE

(***************************************************************************)
(* connection_made, lines 134-138, and disconnect, lines 140-144.          *)
(***************************************************************************)
connection_made ==
    /\ ~is_active
    /\ is_active' = TRUE
    /\ _set_state(WAITING_FOR_INPUT)
    /\ UNCHANGED << otherVars, flagVars, ttsVars, timeVars, subVars,
                    queueVars, taskVars >>

\* disconnect() called as the RTCP BYE callback (prepare_for_call, line 154).
disconnect ==
    /\ is_active
    /\ is_active' = FALSE
    /\ _set_state(WAITING_FOR_INPUT)
    /\ UNCHANGED << otherVars, flagVars, ttsVars, timeVars, subVars,
                    queueVars, taskVars >>

(***************************************************************************)
(* on_chunk, lines 156-168.                                                *)
(***************************************************************************)
\* Mutant of StartsPipeline: a task is created for every chunk.
StartsPipelineAlways == TRUE

\* line 158: a pipeline task is created only when none is recorded.
StartsPipeline == _pipeline_task = None

\* A task id is free when no task of the cycle that used it is left.
FreeTasks ==
    {t \in Tasks : /\ task_pc[t] = "none"
                   /\ send_tts_pc[t] = "none"
                   /\ tone_task_pc[t] = "none"}
NextTask == CHOOSE t \in FreeTasks : \A u \in FreeTasks : t <= u

\* _clear_audio_queue, lines 226-229: get_nowait until the queue is empty.
_clear_audio_queue == << >>

\* Mutant of put_nowait: a queue of capacity 1 that drops when full.
put_bounded(q, chunk) == IF Len(q) >= 1 THEN q ELSE Append(q, chunk)

\* asyncio.Queue() (line 101) has no maxsize: put_nowait always appends.
put_nowait(q, chunk) == Append(q, chunk)

\* RTP datagrams reach on_chunk while the transport is connected.  Chunks
\* are numbered from the chunk that started the cycle.
on_chunk ==
    /\ is_active
    /\ IF StartsPipeline
       THEN /\ FreeTasks # {}
            /\ chunks_in' = 1
            /\ _audio_queue' = put_nowait(_clear_audio_queue, 1)
            /\ _pipeline_task' = NextTask
            /\ task_pc' = [task_pc EXCEPT ![NextTask] = "config"]
            /\ last_end' = "none"
            /\ clock' = 0
            /\ armed_at' = 0
       ELSE /\ chunks_in < MaxChunks
            /\ chunks_in' = chunks_in + 1
            /\ _audio_queue' = put_nowait(_audio_queue, chunks_in + 1)
            /\ UNCHANGED << _pipeline_task, task_pc, last_end, clock,
                            armed_at >>
    /\ UNCHANGED << otherVars, flagVars, ttsVars, subVars, run_stage,
                    timer_on, is_active,
                    satellite_state >>

(***************************************************************************)
(* Time.  clock counts the seconds since the running cycle was created.    *)
(* asyncio.timeout(_PIPELINE_TIMEOUT_SEC), line 196, expires at Deadline;  *)
(* time cannot pass an armed timer's expiry without the timeout being      *)
(* delivered.  Only the instants that a guard can tell apart are kept.     *)
(***************************************************************************)
\* Mutant of Deadline: the timer is armed one second too long.
DeadlineLate(entered) == entered + _PIPELINE_TIMEOUT_SEC + 1

Deadline(entered) == entered + _PIPELINE_TIMEOUT_SEC

\* The next instant at which something timed can happen to task t: the
\* latest end of the config update and listening tone, the expiry of the
\* armed deadline, or the end of the observation after it.
NextInstant(t) ==
    CASE task_pc[t] \in {"config", "listening"} -> MaxPreStreamSec
      [] task_pc[t] = "streaming" -> Deadline(armed_at)
      [] OTHER -> Deadline(armed_at) + MaxOverrunSec

\* Time passes until the next such instant.
Tick ==
    /\ \E t \in Tasks : Live(t)
    /\ \A t \in Tasks : Live(t) => clock < NextInstant(t)
    /\ \E t \in Tasks :
          /\ Live(t)
          /\ \A u \in Tasks : Live(u) => NextInstant(t) <= NextInstant(u)
          /\ clock' = NextInstant(t)
    /\ UNCHANGED << otherVars, flagVars, ttsVars, subVars, queueVars,
                    taskVars, armed_at, timer_on, is_active,
                    satellite_state >>

(***************************************************************************)
(* _run_pipeline, lines 170-224.                                           *)
(***************************************************************************)
\* lines 191-202: try, _tts_done.clear(), enter asyncio.timeout and start
\* awaiting the pipeline run.
EnterTry(t) ==
    /\ task_pc' = [task_pc EXCEPT ![t] = "streaming"]
    /\ _tts_done' = FALSE
    /\ tts_done_by' = None
    /\ timer_on' = TRUE
    /\ armed_at' = clock
    /\ run_stage' = "start"

\* lines 222-224, finally: the task ends; the timer context was left.
Finally(t, how) ==
    /\ task_pc' = [task_pc EXCEPT ![t] = "none"]
    /\ last_end' = how
    /\ _pipeline_task' = None
    /\ run_stage' = IF task_pc[t] = "streaming" THEN "none" ELSE run_stage
    /\ timer_on' = FALSE
    /\ clock' = 0
    /\ armed_at' = 0

\* lines 204-212 reach an await: the timer context was left, the task waits.
WaitAt(t, pc) ==
    /\ task_pc' = [task_pc EXCEPT ![t] = pc]
    /\ run_stage' = "none"
    /\ timer_on' = FALSE
    /\ UNCHANGED << _pipeline_task, last_end, clock, armed_at >>

\* Mutant of DisconnectAndClear: the except clause only clears the queue.
ClearWithoutDisconnect ==
    /\ UNCHANGED << is_active, satellite_state >>
    /\ _audio_queue' = _clear_audio_queue

\* lines 217-221: except (CancelledError, TimeoutError).
DisconnectAndClear ==
    /\ is_active' = FALSE
    /\ _set_state(WAITING_FOR_INPUT)
    /\ _audio_queue' = _clear_audio_queue

\* async_set_config returned (line 175); _play_tone(LISTENING) returns at
\* once when the tone is not enabled (line 323).
ConfigDone(t) ==
    /\ task_pc[t] = "config"
    /\ IF ToneEnabled(LISTENING)
       THEN /\ task_pc' = [task_pc EXCEPT ![t] = "listening"]
            /\ UNCHANGED << ttsVars, timer_on, armed_at, run_stage >>
       ELSE EnterTry(t)
    /\ UNCHANGED << otherVars, flagVars, subVars, queueVars, _pipeline_task,
                    last_end, clock, is_active,
                    satellite_state >>

\* the listening tone has been sent (line 189).
ListeningDone(t) ==
    /\ task_pc[t] = "listening"
    /\ EnterTry(t)
    /\ UNCHANGED << otherVars, flagVars, subVars, queueVars, _pipeline_task,
                    last_end, clock, is_active,
                    satellite_state >>

\* queue_to_iterable (line 199): the pipeline's STT stage takes a chunk.
ConsumeChunk(t) ==
    /\ task_pc[t] = "streaming"
    /\ run_stage = "start"
    /\ _audio_queue # << >>
    /\ _audio_queue' = Tail(_audio_queue)
    /\ UNCHANGED << otherVars, flagVars, ttsVars, timeVars, subVars,
                    taskVars, chunks_in, is_active,
                    satellite_state >>

\* Mutant of PipelineNotFound: PipelineNotFound is handled by the clause of
\* lines 217-221 as well.
PipelineNotFoundDisconnects(t) ==
    /\ task_pc[t] = "streaming"
    /\ run_stage = "start"
    /\ Finally(t, "not_found")
    /\ DisconnectAndClear
    /\ UNCHANGED << otherVars, flagVars, ttsVars, subVars, chunks_in >>

\* line 215: the pipeline run raises PipelineNotFound.
PipelineNotFound(t) ==
    /\ task_pc[t] = "streaming"
    /\ run_stage = "start"
    /\ Finally(t, "not_found")
    /\ UNCHANGED << otherVars, flagVars, ttsVars, subVars, queueVars,
                    is_active,
                    satellite_state >>

\* queue_to_iterable(timeout=self._audio_chunk_timeout): no chunk arrives in
\* time, the TimeoutError leaves the pipeline run and is caught at line 217.
ChunkTimeout(t) ==
    /\ task_pc[t] = "streaming"
    /\ run_stage = "start"
    /\ _audio_queue = << >>
    /\ Finally(t, "timed_out")
    /\ DisconnectAndClear
    /\ UNCHANGED << otherVars, flagVars, ttsVars, subVars, chunks_in >>

\* asyncio.timeout(_PIPELINE_TIMEOUT_SEC) expires (line 196), caught at 217.
PipelineTimeout(t) ==
    /\ task_pc[t] = "streaming"
    /\ timer_on
    /\ clock >= Deadline(armed_at)
    /\ Finally(t, "timed_out")
    /\ DisconnectAndClear
    /\ UNCHANGED << otherVars, flagVars, ttsVars, subVars, chunks_in >>

\* The task is cancelled.  Inside the try block CancelledError is caught at
\* line 217; before it (lines 175-189) it leaves the coroutine and neither
\* the except clause nor the finally clause runs.
Cancel(t) ==
    /\ Live(t)
    /\ IF task_pc[t] \in {"config", "listening"}
       THEN /\ task_pc' = [task_pc EXCEPT ![t] = "killed"]
            /\ clock' = 0
            /\ UNCHANGED << _pipeline_task, last_end, run_stage, timer_on,
                            armed_at, is_active, satellite_state,
                            _audio_queue >>
       ELSE /\ Finally(t, "cancelled")
            /\ DisconnectAndClear
    /\ UNCHANGED << otherVars, flagVars, ttsVars, subVars, chunks_in >>

\* lines 204-212: the pipeline run returned inside the deadline.
\* _tts_done.wait() returns at once when the event is already set, and
\* _play_tone(ERROR) returns at once when the tone is not enabled.
RunReturns(t) ==
    /\ task_pc[t] = "streaming"
    /\ run_stage \in {"stt_end", "tts_end", "error", "error_empty"}
    /\ IF _pipeline_had_error
       THEN /\ _pipeline_had_error' = FALSE
            /\ IF ToneEnabled(ERROR_TONE)
               THEN WaitAt(t, "error_tone")
               ELSE Finally(t, "finished")
       ELSE /\ UNCHANGED _pipeline_had_error
            /\ IF _tts_done
               THEN Finally(t, "finished")
               ELSE WaitAt(t, "awaiting_tts")
    /\ UNCHANGED << otherVars, ttsVars, subVars, queueVars,
                    _processing_tone_done, _tones, is_active,
                    satellite_state >>

\* line 212: _tts_done.wait() returns, then lines 214 and 222-224.
TtsWaitDone(t) ==
    /\ task_pc[t] = "awaiting_tts"
    /\ _tts_done
    /\ Finally(t, "finished")
    /\ UNCHANGED << otherVars, flagVars, ttsVars, subVars, queueVars,
                    is_active,
                    satellite_state >>

\* Mutant of AfterErrorTone: the else of line 207 is missing, so the cycle
\* goes on to _tts_done.wait() after the error tone.
AfterErrorToneFallsThrough(t) ==
    /\ task_pc' = [task_pc EXCEPT ![t] = "awaiting_tts"]
    /\ UNCHANGED << _pipeline_task, last_end, run_stage, timeVars >>

\* lines 207-214: the else branch is skipped, the try block is left.
AfterErrorTone(t) == Finally(t, "finished")

\* line 206: the error tone has been sent, then lines 214 and 222-224.
ErrorToneDone(t) ==
    /\ task_pc[t] = "error_tone"
    /\ AfterErrorTone(t)
    /\ UNCHANGED << otherVars, flagVars, ttsVars, subVars, queueVars,
                    is_active,
                    satellite_state >>

(***************************************************************************)
(* on_pipeline_event, lines 231-258.  The events come from the pipeline    *)
(* run the streaming task awaits: STT_END, then TTS_END, or an ERROR that  *)
(* ends the run.  data is "empty" (falsy event.data, line 235), or the     *)
(* event carries data, whose tts_output is either empty or a media id.     *)
(***************************************************************************)
EventData == {"empty", "no_tts_output", "tts_output"}

\* _tts_done.set() reached by the code of cycle t (lines 255 and 310).
SetsTtsDone(t) ==
    /\ _tts_done' = TRUE
    /\ tts_done_by' = t

\* lines 238-243.
on_stt_end(t, data) ==
    /\ task_pc[t] = "streaming"
    /\ super_on_pipeline_event
    /\ run_stage = "start"
    /\ run_stage' = "stt_end"
    /\ IF data # "empty" /\ ToneEnabled(PROCESSING)
       THEN /\ _processing_tone_done' = FALSE
            /\ tone_task_pc' = [tone_task_pc EXCEPT ![t] = "sending"]
       ELSE UNCHANGED << _processing_tone_done, tone_task_pc >>
    /\ UNCHANGED << otherVars, ttsVars, timeVars, queueVars, _pipeline_task,
                    task_pc, last_end, _pipeline_had_error, _tones,
                    send_tts_pc, is_active >>

\* lines 244-255.
on_tts_end(t, data) ==
    /\ task_pc[t] = "streaming"
    /\ super_on_pipeline_event
    /\ run_stage = "stt_end"
    /\ run_stage' = "tts_end"
    /\ CASE data = "empty" -> UNCHANGED << ttsVars, send_tts_pc >>
         [] data = "tts_output" ->
                /\ send_tts_pc' = [send_tts_pc EXCEPT ![t] = "start"]
                /\ UNCHANGED ttsVars
         [] data = "no_tts_output" ->
                /\ SetsTtsDone(t)
                /\ UNCHANGED send_tts_pc
    /\ UNCHANGED << otherVars, flagVars, timeVars, queueVars, _pipeline_task,
                    task_pc, last_end, tone_task_pc, is_active >>

\* Mutant of ErrorFlag: the ERROR branch does not record the error.
ErrorFlagDropped(data) == _pipeline_had_error

\* lines 235 and 256-258: _pipeline_had_error after an ERROR event.
ErrorFlag(data) == IF data # "empty" THEN TRUE ELSE _pipeline_had_error

on_error(t, data) ==
    /\ task_pc[t] = "streaming"
    /\ super_on_pipeline_event
    /\ run_stage \in {"start", "stt_end"}
    /\ run_stage' = IF data # "empty" THEN "error" ELSE "error_empty"
    /\ _pipeline_had_error' = ErrorFlag(data)
    /\ UNCHANGED << otherVars, ttsVars, timeVars, subVars, queueVars,
                    _pipeline_task, task_pc, last_end,
                    _processing_tone_done, _tones, is_active >>

on_pipeline_event(t, type, data) ==
    CASE type = STT_END -> on_stt_end(t, data)
      [] type = TTS_END -> on_tts_end(t, data)
      [] type = ERROR -> on_error(t, data)

(***************************************************************************)
(* _send_tts, lines 260-313.  tts.async_get_media_source_audio returns an  *)
(* extension, and for a WAV the header gives a format that is the expected *)
(* rate, width and channels or is not.                                     *)
(***************************************************************************)
Extensions == {"wav", "mp3"}
WavFormats == {"expected", "other"}

\* lines 308-313, finally.
SendTtsFinally(t) ==
    /\ send_tts_pc' = [send_tts_pc EXCEPT ![t] = "none"]
    /\ SetsTtsDone(t)
    /\ tts_response_finished

\* The task moves on to its next await.
SendTtsGoes(t, pc) ==
    /\ send_tts_pc' = [send_tts_pc EXCEPT ![t] = pc]
    /\ UNCHANGED << ttsVars, satellite_state >>

SendTtsUnchanged ==
    UNCHANGED << otherVars, flagVars, timeVars, queueVars, taskVars,
                 tone_task_pc, is_active >>

\* lines 278-304: the header is read without awaiting; another format
\* raises ValueError, else the audio is sent under the TTS deadline.
ReadWav(t, format) ==
    IF format # "expected"
    THEN SendTtsFinally(t)
    ELSE SendTtsGoes(t, "sending")

\* lines 263-269: return when there is no transport, else fetch the audio.
SendTtsStart(t) ==
    /\ send_tts_pc[t] = "start"
    /\ IF ~is_active THEN SendTtsFinally(t) ELSE SendTtsGoes(t, "fetching")
    /\ SendTtsUnchanged

\* lines 266-276: the audio arrived; anything but WAV raises ValueError,
\* else the processing tone is waited for when that tone is enabled.
SendTtsFetched(t, extension, format) ==
    /\ send_tts_pc[t] = "fetching"
    /\ IF extension # "wav"
       THEN SendTtsFinally(t)
       ELSE IF ToneEnabled(PROCESSING)
            THEN SendTtsGoes(t, "wait_tone")
            ELSE ReadWav(t, format)
    /\ SendTtsUnchanged

\* line 276: _processing_tone_done.wait() returns.
SendTtsToneWaited(t, format) ==
    /\ send_tts_pc[t] = "wait_tone"
    /\ _processing_tone_done
    /\ ReadWav(t, format)
    /\ SendTtsUnchanged

\* lines 302-307: the audio was sent, or the TTS deadline expired.
SendTtsSent(t) ==
    /\ send_tts_pc[t] = "sending"
    /\ SendTtsFinally(t)
    /\ SendTtsUnchanged

(***************************************************************************)
(* _play_tone(Tones.PROCESSING) as a background task, lines 321-339.       *)
(***************************************************************************)
ProcessingToneSent(t) ==
    /\ tone_task_pc[t] = "sending"
    /\ tone_task_pc' = [tone_task_pc EXCEPT ![t] = "none"]
    /\ _processing_tone_done' = TRUE
    /\ UNCHANGED << otherVars, ttsVars, timeVars, queueVars, taskVars,
                    _pipeline_had_error, _tones, send_tts_pc, is_active,
                    satellite_state >>

VoipNext ==
    \/ connection_made
    \/ disconnect
    \/ on_chunk
    \/ Tick
    \/ \E t \in Tasks :
          \/ ConfigDone(t)
          \/ ListeningDone(t)
          \/ ConsumeChunk(t)
          \/ PipelineNotFound(t)
          \/ ChunkTimeout(t)
          \/ PipelineTimeout(t)
          \/ Cancel(t)
          \/ RunReturns(t)
          \/ TtsWaitDone(t)
          \/ ErrorToneDone(t)
          \/ \E type \in {STT_END, TTS_END, ERROR}, data \in EventData :
                on_pipeline_event(t, type, data)
          \/ SendTtsStart(t)
          \/ \E extension \in Extensions, format \in WavFormats :
                SendTtsFetched(t, extension, format)
          \/ \E format \in WavFormats : SendTtsToneWaited(t, format)
          \/ SendTtsSent(t)
          \/ ProcessingToneSent(t)

(***************************************************************************)
(* websocket_intercept_wake_word, assist_satellite/websocket_api.py.       *)
(***************************************************************************)
MsgIds == 1..MaxMsgs
EntityIds == {"assist_satellite.kitchen", "assist_satellite.removed"}
Registered == {"assist_satellite.kitchen"}
Phrases == {"okay nabu", "hey jarvis"}
NoEntity == "None"

\* Mutant of get_entity: every entity id resolves to a satellite.
get_entity_always(entity_id) == entity_id

\* component.get_entity(msg["entity_id"]), line 39.
get_entity(entity_id) ==
    IF entity_id \in Registered THEN entity_id ELSE NoEntity

\* Messages on the connection, by kind.
ResultMsg == [kind |-> "result"]
NotFoundMsg == [kind |-> "error", code |-> "not_found"]
HaErrorMsg == [kind |-> "error", code |-> "home_assistant_error"]
EventMsg(phrase) == [kind |-> "event", wake_word_phrase |-> phrase]

WsInit ==
    /\ ws_cmd = [i \in MsgIds |-> "new"]
    /\ ws_task = [i \in MsgIds |-> "none"]
    /\ subscriptions = {}
    /\ sent = [i \in MsgIds |-> << >>]

\* lines 38-44 and 59-63: the handler runs without awaiting.
websocket_intercept_wake_word(id, entity_id) ==
    /\ ws_cmd[id] = "new"
    /\ ws_cmd' = [ws_cmd EXCEPT ![id] = entity_id]
    /\ IF get_entity(entity_id) = NoEntity
       THEN /\ sent' = [sent EXCEPT ![id] = Append(@, NotFoundMsg)]
            /\ UNCHANGED << ws_task, subscriptions >>
       ELSE /\ ws_task' = [ws_task EXCEPT ![id] = "waiting"]
            /\ subscriptions' = subscriptions \cup {id}
            /\ sent' = [sent EXCEPT ![id] = Append(@, ResultMsg)]
    /\ UNCHANGED << voipVars, usbVars >>

\* satellite.async_intercept_wake_word() (line 49): the awaited call gets its
\* result, a phrase, or raises HomeAssistantError; the task resumes later.
WakeWord(id, phrase) ==
    /\ ws_task[id] = "waiting"
    /\ ws_task' = [ws_task EXCEPT ![id] = phrase]
    /\ UNCHANGED << voipVars, usbVars, ws_cmd, subscriptions, sent >>

InterceptRaises(id) ==
    /\ ws_task[id] = "waiting"
    /\ ws_task' = [ws_task EXCEPT ![id] = "HomeAssistantError"]
    /\ UNCHANGED << voipVars, usbVars, ws_cmd, subscriptions, sent >>

\* Mutant of Caught: a bare except that also catches CancelledError.
CaughtAny(exc) == TRUE

\* line 56: except HomeAssistantError.
Caught(exc) == exc = "HomeAssistantError"

\* lines 50-57: the task resumes with the phrase or with the exception.
TaskResumes(id) ==
    /\ ws_task[id] \in Phrases \cup {"HomeAssistantError"}
    /\ IF ws_task[id] \in Phrases
       THEN sent' = [sent EXCEPT ![id] = Append(@, EventMsg(ws_task[id]))]
       ELSE sent' = [sent EXCEPT ![id] =
                        IF Caught(ws_task[id]) THEN Append(@, HaErrorMsg)
                        ELSE @]
    /\ ws_task' = [ws_task EXCEPT ![id] = "done"]
    /\ UNCHANGED << voipVars, usbVars, ws_cmd, subscriptions >>

\* connection.subscriptions[msg["id"]]() (line 62): task.cancel().  A task
\* that has not finished gets CancelledError at its await, whether or not
\* the awaited result is already there; a finished task is left alone.
Unsubscribe(id) ==
    /\ id \in subscriptions
    /\ subscriptions' = subscriptions \ {id}
    /\ IF ws_task[id] = "done"
       THEN UNCHANGED << ws_task, sent >>
       ELSE /\ ws_task' = [ws_task EXCEPT ![id] = "cancelled"]
            /\ sent' = [sent EXCEPT ![id] =
                           IF Caught("CancelledError")
                           THEN Append(@, HaErrorMsg) ELSE @]
    /\ UNCHANGED << voipVars, usbVars, ws_cmd >>

WsNext ==
    \/ \E id \in MsgIds, entity_id \in EntityIds :
          websocket_intercept_wake_word(id, entity_id)
    \/ \E id \in MsgIds, phrase \in Phrases : WakeWord(id, phrase)
    \/ \E id \in MsgIds : InterceptRaises(id)
    \/ \E id \in MsgIds : TaskResumes(id)
    \/ \E id \in MsgIds : Unsubscribe(id)

(***************************************************************************)
(* _async_usb_scan_done, homeassistant_sky_connect/__init__.py, 20-64.     *)
(***************************************************************************)
Entries == 1..MaxEntries

UsbFlow == [handler |-> "zha", source |-> "usb"]
HardwareFlow == [handler |-> "zha", source |-> "hardware",
                 radio_type |-> "ezsp", path |-> "get_zigbee_socket()"]

UsbFields ==
    /\ scan_pc = [e \in Entries |-> "idle"]
    /\ flows = [e \in Entries |-> << >>]
    /\ removals = [e \in Entries |-> 0]

\* What the scan will find is fixed per entry before the scan is done.
UsbInit ==
    /\ UsbFields
    /\ plugged_in \in [Entries -> BOOLEAN]
    /\ addon_using \in [Entries -> BOOLEAN]

UsbIdle ==
    /\ UsbFields
    /\ plugged_in = [e \in Entries |-> FALSE]
    /\ addon_using = [e \in Entries |-> FALSE]

\* lines 31-36: dongle not plugged in, removal is scheduled; else the scan
\* awaits get_serial_by_id (line 40).
async_usb_scan_done(e) ==
    /\ scan_pc[e] = "idle"
    /\ IF ~plugged_in[e]
       THEN /\ removals' = [removals EXCEPT ![e] = @ + 1]
            /\ scan_pc' = [scan_pc EXCEPT ![e] = "done"]
       ELSE /\ scan_pc' = [scan_pc EXCEPT ![e] = "get_serial_by_id"]
            /\ UNCHANGED removals
    /\ UNCHANGED << voipVars, wsVars, plugged_in, addon_using, flows >>

\* line 40 returned; the scan awaits multi_pan_addon_using_device (line 42).
SerialById(e) ==
    /\ scan_pc[e] = "get_serial_by_id"
    /\ scan_pc' = [scan_pc EXCEPT ![e] = "multi_pan_addon_using_device"]
    /\ UNCHANGED << voipVars, wsVars, plugged_in, addon_using, flows,
                    removals >>

\* Mutant of FlowsStarted: the return of line 49 is missing.
FlowsStartedNoReturn(using) ==
    IF ~using THEN << UsbFlow, HardwareFlow >> ELSE << HardwareFlow >>

\* lines 42-64: the flows one scan starts, by the add-on check's result.
FlowsStarted(using) ==
    IF ~using THEN << UsbFlow >> ELSE << HardwareFlow >>

\* line 42 returned: the ZHA usb flow is started and awaited (line 44), or
\* the hardware flow is created (line 59).
AddonChecked(e) ==
    /\ scan_pc[e] = "multi_pan_addon_using_device"
    /\ flows' = [flows EXCEPT ![e] = @ \o FlowsStarted(addon_using[e])]
    /\ scan_pc' = [scan_pc EXCEPT ![e] =
                      IF addon_using[e] THEN "done" ELSE "flow_init"]
    /\ UNCHANGED << voipVars, wsVars, plugged_in, addon_using, removals >>

\* line 44: flow.async_init returned, line 49 returns.
FlowInitDone(e) ==
    /\ scan_pc[e] = "flow_init"
    /\ scan_pc' = [scan_pc EXCEPT ![e] = "done"]
    /\ UNCHANGED << voipVars, wsVars, plugged_in, addon_using, flows,
                    removals >>

UsbNext ==
    \E e \in Entries :
        \/ async_usb_scan_done(e)
        \/ SerialById(e)
        \/ AddonChecked(e)
        \/ FlowInitDone(e)

(***************************************************************************)
(* The phase of the satellite's pipeline cycle.  The config update that    *)
(* precedes the listening tone is counted with the listening-tone phase.   *)
(* "dead" is a recorded task that has left its coroutine.                  *)
(***************************************************************************)
Phases == {"idle", "listening-tone", "streaming-to-pipeline",
           "awaiting-tts", "error-tone"}

Phase ==
    IF _pipeline_task = None THEN "idle"
    ELSE CASE task_pc[_pipeline_task] \in {"config", "listening"} ->
                  "listening-tone"
           [] task_pc[_pipeline_task] = "streaming" -> "streaming-to-pipeline"
           [] task_pc[_pipeline_task] = "awaiting_tts" -> "awaiting-tts"
           [] task_pc[_pipeline_task] = "error_tone" -> "error-tone"
           [] OTHER -> "dead"

(***************************************************************************)
(* Properties of VoipAssistSatellite, under Spec.                          *)
(***************************************************************************)

\* C1: at most one _run_pipeline task exists after every step; a task is
\* created only in a step that starts with _pipeline_task None; and
\* _pipeline_task goes back to None only in a step in which the recorded
\* task, running until then, ends.
C1_SingleInFlightCycle ==
    [][ /\ Cardinality({t \in Tasks : task_pc'[t] \in LivePc}) <= 1
        /\ (\E t \in Tasks : task_pc[t] = "none" /\ task_pc'[t] # "none")
              => _pipeline_task = None
        /\ (_pipeline_task # None /\ _pipeline_task' = None)
              => /\ Live(_pipeline_task)
                 /\ task_pc'[_pipeline_task] = "none" ]_vars

\* C1 witness: a cycle is running and further chunks arrived without
\* another task being created.
C1_Witness ==
    \E t \in Tasks :
        /\ _pipeline_task = t
        /\ Live(t)
        /\ chunks_in = MaxChunks
        /\ Cardinality({u \in Tasks : Live(u)}) = 1

\* C2 (as stated): in every phase of a cycle no more than the 30 seconds of
\* the deadline have passed since the cycle was started.
C2_DeadlineCoversWholeCycle ==
    \A t \in Tasks : Live(t) => clock <= _PIPELINE_TIMEOUT_SEC

\* C2 (amended): the deadline covers the pipeline run only.  While the cycle
\* streams audio to the pipeline the timer is armed and no more than 30
\* seconds have passed since it was armed; in the other phases of the cycle
\* (config update, listening tone, awaiting TTS, error tone) no timer is
\* armed.
C2_DeadlineCoversPipelineRun ==
    \A t \in Tasks :
        /\ task_pc[t] = "streaming"
              => timer_on /\ clock - armed_at <= _PIPELINE_TIMEOUT_SEC
        /\ task_pc[t] \in LivePc \ {"streaming"} => ~timer_on

\* C2 witness: a pipeline run that was entered after the config update took
\* time has reached the expiry of its deadline.
C2_Witness ==
    \E t \in Tasks :
        /\ task_pc[t] = "streaming"
        /\ timer_on
        /\ armed_at > 0
        /\ clock - armed_at = _PIPELINE_TIMEOUT_SEC

\* C3 (as stated, its safety part): the task recorded in _pipeline_task is
\* a running _run_pipeline task, which its finally clause will reset; a
\* recorded task that has left its coroutine can never be reset.
C3_RecordedTaskIsRunning ==
    _pipeline_task # None => Live(_pipeline_task)

\* C4 (as stated): the cycle is always in one of the five phases and changes
\* phase only along idle -> listening-tone -> streaming-to-pipeline ->
\* awaiting-tts or error-tone -> idle.
MainEdges ==
    { << "idle", "listening-tone" >>,
      << "listening-tone", "streaming-to-pipeline" >>,
      << "streaming-to-pipeline", "awaiting-tts" >>,
      << "streaming-to-pipeline", "error-tone" >>,
      << "awaiting-tts", "idle" >>,
      << "error-tone", "idle" >> }

C4_PhaseOrderAsStated ==
    [][ /\ Phase' \in Phases
        /\ Phase' # Phase => << Phase, Phase' >> \in MainEdges ]_vars

\* C4 (amended): the cycle is in one of the five phases or dead (cancelled
\* before streaming, _pipeline_task still set); it changes phase only along
\* the stated edges, or from streaming-to-pipeline straight to idle, or
\* from listening-tone to dead; no audio leaves the queue during the
\* listening-tone phase; and there is no edge between awaiting-tts and
\* error-tone.
CodeEdges ==
    MainEdges \cup { << "streaming-to-pipeline", "idle" >>,
                     << "listening-tone", "dead" >> }

C4_PhaseOrder ==
    [][ /\ Phase' \in Phases \cup {"dead"}
        /\ Phase' # Phase => << Phase, Phase' >> \in CodeEdges
        /\ (Phase = "listening-tone" /\ Phase' = "listening-tone")
              => /\ Len(_audio_queue') >= Len(_audio_queue)
                 /\ SubSeq(_audio_queue', 1, Len(_audio_queue))
                       = _audio_queue ]_vars

\* C4 witness: a cycle with the listening tone and the error tone enabled
\* is playing its error tone, having passed the phases before it.
C4_Witness ==
    /\ Phase = "error-tone"
    /\ ToneEnabled(LISTENING)
    /\ _audio_queue = << >>
    /\ chunks_in = MaxChunks

\* C5 (as stated): the number of chunks in _audio_queue stays below a fixed
\* bound, here the number of chunks one cycle is sent.
C5_QueueBounded == Len(_audio_queue) < MaxChunks

\* C5 (amended): the queue has no bound.  It holds, in order, the latest
\* chunks received in the cycle, none dropped between them; and while the
\* consumer has not started (config update, listening tone) it holds every
\* chunk received since the chunk that started the cycle.
C5_QueueHoldsEveryChunk ==
    /\ Len(_audio_queue) <= chunks_in
    /\ \A i \in 1..Len(_audio_queue) :
          _audio_queue[i] = chunks_in - Len(_audio_queue) + i
    /\ Phase = "listening-tone" => Len(_audio_queue) = chunks_in

\* C5 witness: every chunk of the cycle is queued while the listening tone
\* is still playing.
C5_Witness ==
    /\ Phase = "listening-tone"
    /\ task_pc[_pipeline_task] = "listening"
    /\ Len(_audio_queue) = MaxChunks

\* C9 (as stated): when the pipeline run returns after an ERROR event with
\* data, the cycle's next phase is the playing of the error tone.
C9_ErrorToneAlwaysPlayed ==
    [][ \A t \in Tasks :
          ( /\ task_pc[t] = "streaming"
            /\ run_stage = "error"
            /\ task_pc'[t] # "streaming"
            /\ last_end' \notin {"timed_out", "cancelled"} )
             => task_pc'[t] = "error_tone" ]_vars

\* C9 (amended): when the pipeline run returns after an ERROR event with
\* data, the cycle does not go on to await TTS: with _pipeline_had_error
\* reset it plays the error tone if that tone is enabled, and ends at once
\* if it is not (_play_tone returns without sending); the flag is False
\* while the error tone plays and when the cycle ends.
C9_ErrorTonePlayed ==
    [][ \A t \in Tasks :
          /\ ( /\ task_pc[t] = "streaming"
               /\ run_stage = "error"
               /\ task_pc'[t] # "streaming"
               /\ last_end' \notin {"timed_out", "cancelled"} )
                => /\ ~_pipeline_had_error'
                   /\ task_pc'[t] # "awaiting_tts"
                   /\ IF ToneEnabled(ERROR_TONE)
                      THEN task_pc'[t] = "error_tone"
                      ELSE task_pc'[t] = "none" /\ last_end' = "finished"
          /\ task_pc[t] = "error_tone" => ~_pipeline_had_error' ]_vars

\* C9 witness: after an ERROR event the cycle is playing the error tone.
C9_Witness ==
    \E t \in Tasks :
        /\ task_pc[t] = "error_tone"
        /\ ~_pipeline_had_error
        /\ ~_tts_done

\* C10 (as stated): a cycle whose pipeline run returned without an ERROR
\* event ends normally only after _tts_done was set by that same cycle (its
\* TTS_END without output or the end of its own _send_tts task).
C10_BlocksUntilOwnTtsDone ==
    [][ \A t \in Tasks :
          ( /\ \/ task_pc[t] = "awaiting_tts"
               \/ /\ task_pc[t] = "streaming"
                  /\ run_stage \in {"stt_end", "tts_end"}
                  /\ ~_pipeline_had_error
            /\ task_pc'[t] = "none"
            /\ last_end' = "finished" )
             => tts_done_by' = t ]_vars

\* C11 (as stated, its progress part): a _send_tts task that has not left
\* _send_tts can still leave it and signal: one that waits for the
\* processing tone has _processing_tone_done set or a processing tone being
\* sent that will set it.
C11_WaitingSendTtsIsReleased ==
    \A t \in Tasks :
        send_tts_pc[t] = "wait_tone"
           => \/ _processing_tone_done
              \/ \E u \in Tasks : tone_task_pc[u] = "sending"

\* C12 (as stated): with the PROCESSING tone enabled, no step makes a
\* _send_tts task start sending TTS audio while a processing tone started
\* by an STT_END event is still being sent.
C12_NoTtsWhileProcessingTone ==
    [][ \A t \in Tasks :
          ( /\ ToneEnabled(PROCESSING)
            /\ send_tts_pc[t] # "sending"
            /\ send_tts_pc'[t] = "sending" )
             => \A u \in Tasks : tone_task_pc[u] # "sending" ]_vars

\* C13: a step in which the pipeline run of a cycle ends by cancellation or
\* by an expired deadline leaves the device inactive, the satellite state
\* WAITING_FOR_INPUT, the audio queue empty and _pipeline_task None; the
\* task has ended normally (the exception did not leave _run_pipeline) and
\* is neither playing the error tone nor waiting for TTS.
C13_CancelOrTimeoutDisconnects ==
    [][ \A t \in Tasks :
          ( /\ task_pc[t] = "streaming"
            /\ task_pc'[t] # "streaming"
            /\ last_end' \in {"cancelled", "timed_out"} )
             => /\ ~is_active'
                /\ satellite_state' = WAITING_FOR_INPUT
                /\ _audio_queue' = << >>
                /\ _pipeline_task' = None
                /\ task_pc'[t] = "none" ]_vars

\* C13 witness: a cycle whose pipeline run timed out has ended, after chunks
\* had arrived, and left the satellite disconnected with an empty queue.
C13_Witness ==
    /\ last_end = "timed_out"
    /\ chunks_in > 0
    /\ ~is_active
    /\ satellite_state = WAITING_FOR_INPUT
    /\ _audio_queue = << >>
    /\ _pipeline_task = None

\* C14: a step in which the pipeline run ends with PipelineNotFound leaves
\* the device's active flag, the satellite state and the audio queue as they
\* were, resets _pipeline_task to None and ends the task without the error
\* tone and without the TTS wait.
C14_NotFoundLeavesConnection ==
    [][ \A t \in Tasks :
          ( /\ task_pc[t] = "streaming"
            /\ task_pc'[t] # "streaming"
            /\ last_end' = "not_found" )
             => /\ is_active' = is_active
                /\ satellite_state' = satellite_state
                /\ _audio_queue' = _audio_queue
                /\ _pipeline_task' = None
                /\ task_pc'[t] = "none" ]_vars

\* C14 witness: a cycle has ended with PipelineNotFound while the device is
\* still active and chunks are still queued.
C14_Witness ==
    /\ last_end = "not_found"
    /\ is_active
    /\ _audio_queue # << >>
    /\ _pipeline_task = None

(***************************************************************************)
(* Properties of websocket_intercept_wake_word, under SpecWs.              *)
(***************************************************************************)
TaskMsgs(id) ==
    {i \in 1..Len(sent[id]) :
        sent[id][i].kind = "event" \/ sent[id][i] = HaErrorMsg}

\* C6: for a command on an existing satellite the handler has started the
\* task, sent the result and registered the subscription, which stays
\* registered while the task is pending; the task forwards at most one
\* message for the id (an event or a home_assistant_error); and a task
\* cancelled through the subscription has sent none.
C6_AtMostOneTaskMessage ==
    \A id \in MsgIds :
        /\ Cardinality(TaskMsgs(id)) <= 1
        /\ ws_task[id] = "cancelled" => TaskMsgs(id) = {}
        /\ ws_cmd[id] \in Registered
              => /\ ws_task[id] # "none"
                 /\ sent[id][1] = ResultMsg
                 /\ ws_task[id] \notin {"done", "cancelled"}
                       => id \in subscriptions /\ sent[id] = << ResultMsg >>
                 /\ ws_task[id] = "done"
                       => Len(sent[id]) = 2 /\ TaskMsgs(id) = {2}

\* C6 witness: one command's task has forwarded the wake word event and
\* another command's task was cancelled when its wake word had arrived but
\* the task had not resumed.
C6_Witness ==
    \E id, other \in MsgIds :
        /\ ws_task[id] = "done"
        /\ sent[id][2].kind = "event"
        /\ ws_task[other] = "cancelled"
        /\ sent[other] = << ResultMsg >>

\* C7: a command whose entity_id names no satellite has got exactly one
\* not_found error and nothing else: no task, no subscription, no result.
C7_NotFoundOnly ==
    \A id \in MsgIds :
        ws_cmd[id] \in EntityIds \ Registered
           => /\ sent[id] = << NotFoundMsg >>
              /\ ws_task[id] = "none"
              /\ id \notin subscriptions

\* C7 witness: a command for an entity that does not exist was handled.
C7_Witness ==
    \E id \in MsgIds :
        /\ ws_cmd[id] = "assist_satellite.removed"
        /\ sent[id] = << NotFoundMsg >>

(***************************************************************************)
(* Properties of _async_usb_scan_done, under SpecUsb.                      *)
(***************************************************************************)
\* C8: a scan never starts both flows; when it is done exactly one of three
\* outcomes has happened: not plugged in, one removal scheduled and no flow;
\* plugged in and add-on not using the device, only the ZHA usb flow;
\* add-on using the device, only the ZHA hardware flow.
C8_ExactlyOneOutcome ==
    \A e \in Entries :
        /\ Len(flows[e]) + removals[e] <= 1
        /\ scan_pc[e] = "done"
              => IF ~plugged_in[e]
                 THEN removals[e] = 1 /\ flows[e] = << >>
                 ELSE /\ removals[e] = 0
                      /\ flows[e] = IF addon_using[e]
                                    THEN << HardwareFlow >>
                                    ELSE << UsbFlow >>

\* C8 witness: two scans are done with different outcomes, one of them the
\* ZHA usb flow.
C8_Witness ==
    \E e, f \in Entries :
        /\ scan_pc[e] = "done" /\ scan_pc[f] = "done"
        /\ flows[e] = << UsbFlow >>
        /\ flows[f] = << HardwareFlow >> \/ removals[f] = 1

(***************************************************************************)
(* Specifications.                                                         *)
(***************************************************************************)
Init == VoipInit /\ WsInit /\ UsbIdle
Next == VoipNext
Spec == Init /\ [][Next]_vars

InitWs == VoipIdle /\ WsInit /\ UsbIdle
NextWs == WsNext
SpecWs == InitWs /\ [][NextWs]_vars

InitUsb == VoipIdle /\ WsInit /\ UsbInit
NextUsb == UsbNext
SpecUsb == InitUsb /\ [][NextUsb]_vars

=============================================================================
